---- MODULE Spec2Model ----
(***************************************************************************)
(* Uptime Clock (uclock.c): a Win32 window that shows the local date and   *)
(* time and the system uptime, refreshed by a one-second timer.            *)
(*                                                                         *)
(* The model has the WinMain control flow, the window procedure's          *)
(* handlers, the two text buffers of CLOCKWINDOW and the arithmetic and    *)
(* formatting of UpdateClock.  A character array is a string in which the  *)
(* zero byte is written NUL.  An unsigned long long is a sequence of 16 hex *)
(* digits, most significant first, so that values beyond 2^31 (1000 days   *)
(* of milliseconds, the 2^32 wrap of GetTickCount) are computed exactly.   *)
(***************************************************************************)
EXTENDS Integers, Sequences, FiniteSets, TLC

\* ------------------------------------------------------------------------
\* Program constants (uclock.c lines 46-67)
\* ------------------------------------------------------------------------
CLOCK_LEN == 22

UPTIME_LEN == 28

UPTIME_LABEL_LEN == 13

IDT_REFRESH == 1

MSEC_PER_SEC == 1000

MSEC_PER_MIN == MSEC_PER_SEC * 60

MSEC_PER_HR == MSEC_PER_MIN * 60

MSEC_PER_DAY == MSEC_PER_HR * 24

\* The terminator character, and the zero-filled array memset leaves.
NUL == "@"

RECURSIVE ZeroBuf(_)
ZeroBuf(n) == IF n = 0 THEN "" ELSE ZeroBuf(n - 1) \o NUL

\* The character at index i of the array s, counted from 1.
CharAt(s, i) == SubSeq(s, i, i)

\* ------------------------------------------------------------------------
\* unsigned long long: 16 hex digits, most significant first
\* ------------------------------------------------------------------------
U64Digits == 16

DWORDDigits == 8

RECURSIVE IntDigits(_, _)
\* The k low hex digits of the non-negative integer n.
IntDigits(n, k) ==
    IF k = 0 THEN <<>> ELSE IntDigits(n \div 16, k - 1) \o <<n % 16>>

U64FromInt(n) == IntDigits(n, U64Digits)

U64IsZero(a) == \A i \in 1..Len(a) : a[i] = 0

RECURSIVE AddFrom(_, _, _, _)
\* Digits 1..i of a + b, carry coming in at digit i; the carry out of
\* digit 1 is dropped (arithmetic modulo 2^64).
AddFrom(a, b, i, carry) ==
    IF i = 0 THEN <<>>
    ELSE LET t == a[i] + b[i] + carry
         IN  AddFrom(a, b, i - 1, t \div 16) \o <<t % 16>>

U64Add(a, b) == AddFrom(a, b, U64Digits, 0)

RECURSIVE MulFrom(_, _, _, _)
\* Digits 1..i of a * m for a small multiplier m (m < 2^27).
MulFrom(a, m, i, carry) ==
    IF i = 0 THEN <<>>
    ELSE LET t == a[i] * m + carry
         IN  MulFrom(a, m, i - 1, t \div 16) \o <<t % 16>>

U64MulSmall(a, m) == MulFrom(a, m, U64Digits, 0)

RECURSIVE DivFrom(_, _, _, _)
\* Long division of a by the small divisor d (d < 2^27), from digit i on,
\* with the running remainder rem.
DivFrom(a, d, i, rem) ==
    IF i > Len(a) THEN [quot |-> <<>>, rem |-> rem]
    ELSE LET cur  == rem * 16 + a[i]
             rest == DivFrom(a, d, i + 1, cur % d)
         IN  [quot |-> <<cur \div d>> \o rest.quot, rem |-> rest.rem]

\* a / d and a % d of C for an unsigned long long a.
U64DivMod(a, d) == DivFrom(a, d, 1, 0)

\* a < b, both of the same width.
U64Less(a, b) ==
    \E i \in 1..Len(a) :
        /\ a[i] < b[i]
        /\ \A j \in 1..(i - 1) : a[j] = b[j]

\* Conversion of a DWORD to unsigned long long: the low 32 bits, zero-extended.
\* A widening that copies bit 31 into the upper half, as for a signed long.
SignExtend32(a) ==
    [i \in 1..U64Digits |->
        IF i > U64Digits - DWORDDigits THEN a[i]
        ELSE IF a[U64Digits - DWORDDigits + 1] >= 8 THEN 15 ELSE 0]

ZeroExtend32(a) ==
    [i \in 1..U64Digits |-> IF i <= U64Digits - DWORDDigits THEN 0 ELSE a[i]]

\* ------------------------------------------------------------------------
\* printf and strftime conversions
\* ------------------------------------------------------------------------
Digit(n) == CharAt("0123456789", n + 1)

RECURSIVE IntDec(_)
\* %lld of a value that fits an int: decimal, no padding.
IntDec(n) ==
    IF n < 10 THEN Digit(n) ELSE IntDec(n \div 10) \o Digit(n % 10)

RECURSIVE U64Dec(_)
\* %lld of an unsigned long long below 2^63: decimal, no padding.
U64Dec(a) ==
    LET qr == U64DivMod(a, 10)
    IN  IF U64IsZero(qr.quot) THEN Digit(qr.rem)
        ELSE U64Dec(qr.quot) \o Digit(qr.rem)

\* %m, %d, %I, %M, %S: two digits, zero-padded.
Dec2(n) == Digit((n \div 10) % 10) \o Digit(n % 10)

\* The hour of a 12-hour clock with midnight and noon left at 0.
Hour12FromZero(h) == h % 12

\* %I: the hour on a 12-hour clock, 01..12.
Hour12(h) == IF h % 12 = 0 THEN 12 ELSE h % 12

\* %p in the C locale.
AmPm(h) == IF h < 12 THEN "AM" ELSE "PM"

\* CLOCK_FMT "%m/%d/%Y %I:%M:%S %p" applied to a struct tm.
ClockText(tm) ==
    Dec2(tm.tm_mon + 1) \o "/" \o Dec2(tm.tm_mday) \o "/"
        \o IntDec(tm.tm_year + 1900) \o " "
        \o Dec2(Hour12(tm.tm_hour)) \o ":" \o Dec2(tm.tm_min) \o ":"
        \o Dec2(tm.tm_sec) \o " " \o AmPm(tm.tm_hour)

\* The uptime text with the hours' unit spelled "hrs".
UptimeTextHrs(days, hours, minutes, seconds) ==
    U64Dec(days) \o " d, " \o IntDec(hours) \o " hrs, "
        \o IntDec(minutes) \o " min, " \o IntDec(seconds) \o " sec"

\* UPTIME_FMT "%lld d, %lld hr, %lld min, %lld sec".
UptimeText(days, hours, minutes, seconds) ==
    U64Dec(days) \o " d, " \o IntDec(hours) \o " hr, "
        \o IntDec(minutes) \o " min, " \o IntDec(seconds) \o " sec"

\* The first n characters of s.
Take(s, n) == SubSeq(s, 1, IF n < Len(s) THEN n ELSE Len(s))

\* strftime(buf, max, ...): the text and its terminator if they fit in max
\* characters (the count is returned), else 0 and nothing stored.
Strftime(buf, max, text) ==
    IF Len(text) + 1 > max
    THEN [ret |-> 0, buf |-> buf]
    ELSE [ret |-> Len(text),
          buf |-> text \o NUL \o SubSeq(buf, Len(text) + 2, Len(buf))]

\* A snprintf that stores n characters and no terminator when the text
\* does not fit (the behaviour of _snprintf).
SnprintfNoTerminator(buf, n, text) ==
    IF Len(text) < n
    THEN [ret |-> Len(text),
          buf |-> text \o NUL \o SubSeq(buf, Len(text) + 2, Len(buf))]
    ELSE [ret |-> Len(text), buf |-> Take(text, n)]

\* snprintf(buf, n, ...): at most n - 1 characters of the text, then the
\* terminator; the full length of the text is returned.
Snprintf(buf, n, text) ==
    LET out == Take(text, n - 1)
    IN  [ret |-> Len(text),
         buf |-> out \o NUL \o SubSeq(buf, Len(out) + 2, Len(buf))]

\* STRLEN: the characters before the first terminator (the array's length
\* if it holds none).
Strlen(buf) ==
    IF \E i \in 1..Len(buf) : CharAt(buf, i) = NUL
    THEN (CHOOSE i \in 1..Len(buf) :
              /\ CharAt(buf, i) = NUL
              /\ \A j \in 1..(i - 1) : CharAt(buf, j) # NUL) - 1
    ELSE Len(buf)

\* The C string held in an array.
CString(buf) == SubSeq(buf, 1, Strlen(buf))

\* ------------------------------------------------------------------------
\* UpdateClock's uptime arithmetic (lines 384-391)
\* ------------------------------------------------------------------------
\* The arithmetic with the "ticks %= MSEC_PER_HR" of line 388 left out.
UptimePartsKeepsHours(ticks) ==
    LET d  == U64DivMod(ticks, MSEC_PER_DAY)
        t1 == d.rem
        h  == t1 \div MSEC_PER_HR
        m  == t1 \div MSEC_PER_MIN
        t3 == t1 % MSEC_PER_MIN
        s  == t3 \div MSEC_PER_SEC
    IN  [ticks |-> ticks, days |-> d.quot, hours |-> h, minutes |-> m,
         seconds |-> s]

UptimeParts(ticks) ==
    LET d  == U64DivMod(ticks, MSEC_PER_DAY)
        t1 == d.rem
        h  == t1 \div MSEC_PER_HR
        t2 == t1 % MSEC_PER_HR
        m  == t2 \div MSEC_PER_MIN
        t3 == t2 % MSEC_PER_MIN
        s  == t3 \div MSEC_PER_SEC
    IN  [ticks |-> ticks, days |-> d.quot, hours |-> h, minutes |-> m,
         seconds |-> s]

\* ------------------------------------------------------------------------
\* Bounds and sampled inputs of the model
\* ------------------------------------------------------------------------
\* How many times the environment lets time pass in one run.
MaxElapse == 1

Ms(d, h, m, s, ms) ==
    U64Add(U64MulSmall(U64FromInt(d), MSEC_PER_DAY),
           U64FromInt(h * MSEC_PER_HR + m * MSEC_PER_MIN + s * MSEC_PER_SEC + ms))

\* The uptime at program start: an hour after boot, a second short of the
\* first uptime whose text has 29 characters, and a second short of the
\* 2^32 ms wrap of GetTickCount.
BootUptimes ==
    { Ms(0, 1, 1, 1, 0), Ms(1000, 10, 10, 9, 250), Ms(49, 17, 2, 46, 296) }

\* By how much the uptime grows when time passes.
ElapseDeltas == { U64FromInt(MSEC_PER_SEC) }

Tm(y, mo, d, h, mi, sec) ==
    [tm_year |-> y - 1900, tm_mon |-> mo - 1, tm_mday |-> d,
     tm_hour |-> h, tm_min |-> mi, tm_sec |-> sec]

\* Local times the wall clock shows.
NowSamples == { Tm(2023, 3, 30, 0, 34, 56), Tm(2024, 12, 31, 23, 59, 59) }

\* Inputs of the formatting checks: uptimes around every change of a
\* field's digit count, and the largest unsigned long long.
U64Max == [i \in 1..U64Digits |-> 15]

FmtUptimes ==
    { Ms(d, h, m, sec, ms) :
        d \in {0, 1, 9, 10, 99, 100, 999, 1000},
        h \in {0, 1, 10, 23}, m \in {0, 1, 10, 59}, sec \in {0, 1, 10, 59},
        ms \in {0, 999} } \cup {U64Max}

\* Local times within the range localtime yields on Windows (1970-3000).
FmtTimes ==
    { Tm(y, mo, d, h, mi, sec) :
        y \in {1970, 2023, 3000}, mo \in {1, 3, 10, 12}, d \in {1, 9, 30},
        h \in {0, 1, 9, 10, 11, 12, 13, 21, 22, 23},
        mi \in {0, 34, 59}, sec \in {0, 56, 59} }

FmtInputs ==
    { <<u, Tm(2023, 3, 30, 0, 34, 56)>> : u \in FmtUptimes }
        \cup { <<Ms(0, 1, 1, 1, 0), t>> : t \in FmtTimes }

\* wMilliseconds read by the synchronisation loop of StartClock.
MsSamples == { 0, 10, 11, 999 }

\* Client areas (right, bottom) the host gives the window; a minimised
\* window has an empty one.
InitialRect == [right |-> 640, bottom |-> 480]

Sizes ==
    { InitialRect, [right |-> 333, bottom |-> 95], [right |-> 0, bottom |-> 0] }

\* The Sleep(2) of the synchronisation loop (line 343), in milliseconds.
SleepMs == 2

\* The accelerator table (lines 69-74).
IDCANCEL == "IDCANCEL"

accel ==
    { [fVirt |-> {"FVIRTKEY"}, key |-> "VK_ESCAPE", cmd |-> IDCANCEL],
      [fVirt |-> {"FCONTROL", "FVIRTKEY"}, key |-> "W", cmd |-> IDCANCEL] }

\* A key-down message: the virtual key and whether Ctrl is held.
Key(vk, ctrl) == [vk |-> vk, ctrl |-> ctrl]

NoKey == Key("none", FALSE)

Keys == { Key("VK_ESCAPE", FALSE), Key("W", TRUE), Key("W", FALSE) }

\* An accelerator table that lacks the Ctrl+W entry (line 73).
TranslateAcceleratorEscapeOnly(m) ==
    IF m.vk = "VK_ESCAPE" /\ ~m.ctrl THEN IDCANCEL ELSE "none"

\* TranslateAccelerator (line 480): the command of the entry whose key and
\* modifiers match the message, if there is one.
TranslateAccelerator(m) ==
    IF \E a \in accel : a.key = m.vk /\ (("FCONTROL" \in a.fVirt) <=> m.ctrl)
    THEN (CHOOSE a \in accel :
              a.key = m.vk /\ (("FCONTROL" \in a.fVirt) <=> m.ctrl)).cmd
    ELSE "none"

\* The system clock's milliseconds when the synchronisation loop is
\* entered, and the time one turn of it takes: Sleep(2) returns after 2 ms
\* at the earliest.
StartMs == { 0, 10, 11, 12, 500, 999 }

TurnMs == { SleepMs, 3, 16, 20 }

\* Client areas for the layout: every height up to MaxHeight, at an even,
\* an odd and an empty width.
MaxHeight == 200

LayoutRects ==
    { [right |-> w, bottom |-> h] : w \in {0, 333, 640}, h \in 0..MaxHeight }

\* Which resource creation fails in a paint, if any.
PaintFails == { "none", "memDC", "memBM", "font1", "font2" }

\* ------------------------------------------------------------------------
\* State
\* ------------------------------------------------------------------------
VARIABLES
    pc,                         \* position in WinMain
    retval,                     \* WinMain's retval
    hinstKernel32,              \* TRUE when kernel32.dll was loaded
    pGetTickCount64,            \* TRUE when the entry point was found
    pSetThreadExecutionState,   \* TRUE when the entry point was found
    hAccTable,                  \* "unset", "NULL" or "handle"
    hwndClock,                  \* "unset", "NULL" or "hwnd"
    hwnd,                       \* the host's window: "none", "live", "destroyed"
    window,                     \* GWLP_USERDATA: "NULL", "alloc" or "freed"
    szClock,                    \* window->szClock
    szUptime,                   \* window->szUptime
    timers,                     \* identifiers of the timers set on the window
    visible,                    \* wParam of the last WM_SHOWWINDOW
    execState,                  \* TRUE while ES_DISPLAY_REQUIRED is in force
    invalid,                    \* TRUE when the window has an update region
    quitPosted,                 \* TRUE when WM_QUIT is in the queue
    rect,                       \* the client area, as GetClientRect reports it
    screen,                     \* what the last blit put on the screen
    gdi,                        \* the GDI calls of the paint being run, in order
    hpc,                        \* position in the handler being run
    ltMs,                       \* lt.wMilliseconds in StartClock
    msg,                        \* the key message GetMessage returned
    clockMs,                    \* milliseconds past the second, system clock
    turnMs,                     \* milliseconds one turn of the sync loop takes
    upd,                        \* the locals of the last UpdateClock call
    uptime,                     \* milliseconds since boot
    now,                        \* the local time
    elapsed                     \* times the environment let time pass

vars ==
    <<pc, retval, hinstKernel32, pGetTickCount64, pSetThreadExecutionState,
      hAccTable, hwndClock, hwnd, window, szClock, szUptime, timers, visible,
      execState, invalid, quitPosted, rect, screen, gdi, hpc, ltMs, msg,
      clockMs, turnMs, upd, uptime, now, elapsed>>

winMainVars ==
    <<pc, retval, hinstKernel32, pGetTickCount64, pSetThreadExecutionState,
      hAccTable, hwndClock, execState>>

envVars == <<uptime, now, elapsed>>

syncVars == <<clockMs, turnMs>>

textVars == <<szClock, szUptime, upd>>

paintVars == <<screen, gdi>>

NoUpdate ==
    [called |-> FALSE, redraw |-> FALSE, clockRet |-> 0, uptimeRet |-> 0,
     ticks |-> U64FromInt(0), days |-> U64FromInt(0), hours |-> 0,
     minutes |-> 0, seconds |-> 0]

BlankScreen ==
    [painted |-> FALSE, clock |-> "", label |-> "", uptime |-> "",
     cHeightClock |-> 0, cHeightUptime |-> 0, x |-> 0,
     yClock |-> 0, yLabel |-> 0, yUptime |-> 0, right |-> 0, bottom |-> 0]

\* The state at the entry of WinMain, at uptime u and local time t.
InitAt(u, t) ==
    /\ pc = "start"
    /\ retval = 0
    /\ hinstKernel32 = FALSE
    /\ pGetTickCount64 = FALSE
    /\ pSetThreadExecutionState = FALSE
    /\ hAccTable = "unset"
    /\ hwndClock = "unset"
    /\ hwnd = "none"
    /\ window = "NULL"
    /\ szClock = ""
    /\ szUptime = ""
    /\ timers = {}
    /\ visible = FALSE
    /\ execState = FALSE
    /\ invalid = FALSE
    /\ quitPosted = FALSE
    /\ rect = InitialRect
    /\ screen = BlankScreen
    /\ gdi = <<>>
    /\ hpc = "idle"
    /\ ltMs = 0
    /\ msg = NoKey
    /\ clockMs = 0
    /\ turnMs = SleepMs
    /\ upd = NoUpdate
    /\ uptime = u
    /\ now = t
    /\ elapsed = 0

Init == \E u \in BootUptimes, t \in NowSamples : InitAt(u, t)

\* The state in which WinMain is about to call ShowWindow (line 475), the
\* start-up having succeeded, at uptime u and local time t; gtc tells
\* whether GetTickCount64 was found, r is the client area the host gave the
\* window, ms the system clock's milliseconds and turn the time a turn of
\* the synchronisation loop takes.
CreatedWith(u, t, gtc, r, ms, turn) ==
    /\ pc = "show"
    /\ retval = 0
    /\ hinstKernel32 = TRUE
    /\ pGetTickCount64 = gtc
    /\ pSetThreadExecutionState = TRUE
    /\ hAccTable = "handle"
    /\ hwndClock = "hwnd"
    /\ hwnd = "live"
    /\ window = "alloc"
    /\ szClock = ZeroBuf(CLOCK_LEN + 1)
    /\ szUptime = ZeroBuf(UPTIME_LEN + 1)
    /\ timers = {}
    /\ visible = FALSE
    /\ execState = TRUE
    /\ invalid = FALSE
    /\ quitPosted = FALSE
    /\ rect = r
    /\ screen = BlankScreen
    /\ gdi = <<>>
    /\ hpc = "idle"
    /\ ltMs = 0
    /\ msg = NoKey
    /\ clockMs = ms
    /\ turnMs = turn
    /\ upd = NoUpdate
    /\ uptime = u
    /\ now = t
    /\ elapsed = 0

CreatedAt(u, t, gtc) == CreatedWith(u, t, gtc, InitialRect, 0, SleepMs)

InitFmt == \E inp \in FmtInputs, gtc \in BOOLEAN : CreatedAt(inp[1], inp[2], gtc)

\* ------------------------------------------------------------------------
\* The uptime source (lines 100-103)
\* ------------------------------------------------------------------------
GetTickCount64OrOtherwise ==
    IF pGetTickCount64 THEN uptime ELSE ZeroExtend32(uptime)

\* ------------------------------------------------------------------------
\* UpdateClock (lines 366-401): the buffers and the locals it leaves when
\* run on the buffers clock and up, at local time tm and tick count ticks.
\* ------------------------------------------------------------------------
\* An UpdateClock that has lost the strftime of line 380: szClock keeps
\* what it held.
UpdateClockResultKeepsClock(clock, up, tm, ticks) ==
    LET p == UptimeParts(ticks)
        u == Snprintf(ZeroBuf(UPTIME_LEN + 1), UPTIME_LEN + 1,
                      UptimeText(p.days, p.hours, p.minutes, p.seconds))
    IN  [szClock |-> clock, szUptime |-> u.buf,
         upd |-> [called |-> TRUE, redraw |-> (u.ret # 0),
                  clockRet |-> CLOCK_LEN, uptimeRet |-> u.ret,
                  ticks |-> p.ticks, days |-> p.days, hours |-> p.hours,
                  minutes |-> p.minutes, seconds |-> p.seconds]]

UpdateClockResult(clock, up, tm, ticks) ==
    LET c == Strftime(ZeroBuf(CLOCK_LEN + 1), CLOCK_LEN + 1, ClockText(tm))
        p == UptimeParts(ticks)
        u == Snprintf(ZeroBuf(UPTIME_LEN + 1), UPTIME_LEN + 1,
                      UptimeText(p.days, p.hours, p.minutes, p.seconds))
    IN  IF c.ret = 0
        THEN [szClock |-> c.buf, szUptime |-> up,
              upd |-> [upd EXCEPT !.called = TRUE, !.redraw = FALSE,
                                  !.clockRet = 0]]
        ELSE [szClock |-> c.buf, szUptime |-> u.buf,
              upd |-> [called |-> TRUE, redraw |-> (u.ret # 0),
                       clockRet |-> c.ret, uptimeRet |-> u.ret,
                       ticks |-> p.ticks, days |-> p.days, hours |-> p.hours,
                       minutes |-> p.minutes, seconds |-> p.seconds]]

\* UpdateClock with the RedrawWindow of line 400 left out.
UpdateClockNoRedraw ==
    LET r == UpdateClockResult(szClock, szUptime, now, GetTickCount64OrOtherwise)
    IN  /\ szClock' = r.szClock
        /\ szUptime' = r.szUptime
        /\ upd' = r.upd
        /\ invalid' = invalid

\* UpdateClock(window) as a step: the buffers, and RedrawWindow.
UpdateClock ==
    LET r == UpdateClockResult(szClock, szUptime, now, GetTickCount64OrOtherwise)
    IN  /\ szClock' = r.szClock
        /\ szUptime' = r.szUptime
        /\ upd' = r.upd
        /\ invalid' = (invalid \/ r.upd.redraw)

\* ------------------------------------------------------------------------
\* WinMain (lines 403-496)
\* ------------------------------------------------------------------------
\* LoadLibrary and the two GetProcAddress calls (lines 419-429).
WinMainLoadLibrary ==
    /\ pc = "start"
    /\ \E lib \in BOOLEAN, gtc \in BOOLEAN, stes \in BOOLEAN :
        /\ hinstKernel32' = lib
        /\ pGetTickCount64' = (lib /\ gtc)
        /\ pSetThreadExecutionState' = (lib /\ stes)
    /\ pc' = "accel"
    /\ UNCHANGED <<retval, hAccTable, hwndClock, execState, hwnd, window,
                   textVars, timers, visible, invalid, quitPosted, rect,
                   paintVars, hpc, ltMs, envVars, msg,
                   syncVars>>

\* CreateAcceleratorTable and its check (lines 431-436).
WinMainCreateAccel ==
    /\ pc = "accel"
    /\ \E ok \in BOOLEAN :
        /\ hAccTable' = IF ok THEN "handle" ELSE "NULL"
        /\ retval' = IF ok THEN retval ELSE 1
        /\ pc' = IF ok THEN "create" ELSE "cleanup"
    /\ UNCHANGED <<hinstKernel32, pGetTickCount64, pSetThreadExecutionState,
                   hwndClock, execState, hwnd, window, textVars, timers,
                   visible, invalid, quitPosted, rect, paintVars, hpc, ltMs,
                   envVars, msg,
                   syncVars>>

\* WinMainCreateWindow with "retval = 1" (line 464) left out.
WinMainCreateWindowKeepsRetval ==
    /\ pc = "create"
    /\ \E outcome \in {"ok", "hostfail", "nomem"} :
        /\ hwndClock' = IF outcome = "ok" THEN "hwnd" ELSE "NULL"
        /\ hwnd' = CASE outcome = "ok" -> "live"
                      [] outcome = "nomem" -> "destroyed"
                      [] OTHER -> hwnd
        /\ window' = IF outcome = "ok" THEN "alloc" ELSE window
        /\ szClock' = IF outcome = "ok" THEN ZeroBuf(CLOCK_LEN + 1) ELSE szClock
        /\ szUptime' = IF outcome = "ok" THEN ZeroBuf(UPTIME_LEN + 1) ELSE szUptime
        /\ quitPosted' = IF outcome = "nomem" THEN TRUE ELSE quitPosted
        /\ pc' = IF outcome = "ok" THEN "keepawake" ELSE "cleanup"
    /\ UNCHANGED <<retval, hinstKernel32, pGetTickCount64,
                   pSetThreadExecutionState, hAccTable, execState, upd,
                   timers, visible, invalid, rect, paintVars, hpc, ltMs,
                   envVars, msg,
                   syncVars>>

\* WinMainCreateWindow with a CreateClockWindow that returns 0 when malloc
\* fails: the window is created with no CLOCKWINDOW attached.
WinMainCreateWindowIgnoresNoMem ==
    /\ pc = "create"
    /\ \E outcome \in {"ok", "hostfail", "nomem"} :
        /\ hwndClock' = IF outcome = "hostfail" THEN "NULL" ELSE "hwnd"
        /\ hwnd' = IF outcome = "hostfail" THEN hwnd ELSE "live"
        /\ window' = IF outcome = "ok" THEN "alloc" ELSE window
        /\ szClock' = IF outcome = "ok" THEN ZeroBuf(CLOCK_LEN + 1) ELSE szClock
        /\ szUptime' = IF outcome = "ok" THEN ZeroBuf(UPTIME_LEN + 1) ELSE szUptime
        /\ retval' = IF outcome = "hostfail" THEN 1 ELSE retval
        /\ pc' = IF outcome = "hostfail" THEN "cleanup" ELSE "keepawake"
    /\ UNCHANGED <<hinstKernel32, pGetTickCount64, pSetThreadExecutionState,
                   hAccTable, execState, upd, timers, visible, invalid,
                   quitPosted, rect, paintVars, hpc, ltMs, envVars, msg,
                   syncVars>>

\* RegisterClass, CreateWindowEx and its check (lines 438-466).  The host
\* sends WM_CREATE from within CreateWindowEx; CreateClockWindow (lines
\* 171-185) allocates and zeroes the CLOCKWINDOW, or returns -1, on which
\* the host destroys the window (WM_DESTROY, with no CLOCKWINDOW attached:
\* DestroyClockWindow returns at once, PostQuitMessage runs) and
\* CreateWindowEx returns NULL.
WinMainCreateWindow ==
    /\ pc = "create"
    /\ \E outcome \in {"ok", "hostfail", "nomem"} :
        CASE outcome = "ok" ->
                /\ hwndClock' = "hwnd"
                /\ hwnd' = "live"
                /\ window' = "alloc"
                /\ szClock' = ZeroBuf(CLOCK_LEN + 1)
                /\ szUptime' = ZeroBuf(UPTIME_LEN + 1)
                /\ pc' = "keepawake"
                /\ UNCHANGED <<retval, quitPosted>>
          [] outcome = "hostfail" ->
                /\ hwndClock' = "NULL"
                /\ retval' = 1
                /\ pc' = "cleanup"
                /\ UNCHANGED <<hwnd, window, szClock, szUptime, quitPosted>>
          [] outcome = "nomem" ->
                /\ hwndClock' = "NULL"
                /\ hwnd' = "destroyed"
                /\ quitPosted' = TRUE
                /\ retval' = 1
                /\ pc' = "cleanup"
                /\ UNCHANGED <<window, szClock, szUptime>>
    /\ UNCHANGED <<hinstKernel32, pGetTickCount64, pSetThreadExecutionState,
                   hAccTable, execState, upd, timers, visible, invalid, rect,
                   paintVars, hpc, ltMs, envVars, msg,
                   syncVars>>

\* WinMainKeepAwake without the test of the pointer (line 470).
WinMainKeepAwakeUnchecked ==
    /\ pc = "keepawake"
    /\ execState' = TRUE
    /\ pc' = "show"
    /\ UNCHANGED <<retval, hinstKernel32, pGetTickCount64,
                   pSetThreadExecutionState, hAccTable, hwndClock, hwnd,
                   window, textVars, timers, visible, invalid, quitPosted,
                   rect, paintVars, hpc, ltMs, envVars, msg, syncVars>>

\* Block screen blanking and sleep (lines 468-472).
WinMainKeepAwake ==
    /\ pc = "keepawake"
    /\ execState' = IF pSetThreadExecutionState THEN TRUE ELSE execState
    /\ pc' = "show"
    /\ UNCHANGED <<retval, hinstKernel32, pGetTickCount64,
                   pSetThreadExecutionState, hAccTable, hwndClock, hwnd,
                   window, textVars, timers, visible, invalid, quitPosted,
                   rect, paintVars, hpc, ltMs, envVars, msg,
                   syncVars>>

\* ShowWindow(hwndClock, nCmdShow) (lines 474-476): when nCmdShow shows the
\* window the host sends WM_SHOWWINDOW with wParam TRUE, and the window
\* procedure enters StartClock before ShowWindow returns.
WinMainShowWindow ==
    /\ pc = "show"
    /\ \E show \in BOOLEAN :
        /\ visible' = show
        /\ hpc' = IF show THEN "sync" ELSE "idle"
    /\ pc' = "loop"
    /\ UNCHANGED <<retval, hinstKernel32, pGetTickCount64,
                   pSetThreadExecutionState, hAccTable, hwndClock, execState,
                   hwnd, window, textVars, timers, invalid, quitPosted, rect,
                   paintVars, ltMs, envVars, msg,
                   syncVars>>

\* GetMessage returns 0 on WM_QUIT and the loop ends (lines 478-484).
WinMainGetMessageQuit ==
    /\ pc = "loop"
    /\ hpc = "idle"
    /\ quitPosted
    /\ pc' = "restore"
    /\ UNCHANGED <<retval, hinstKernel32, pGetTickCount64,
                   pSetThreadExecutionState, hAccTable, hwndClock, execState,
                   hwnd, window, textVars, timers, visible, invalid,
                   quitPosted, rect, paintVars, hpc, ltMs, envVars, msg,
                   syncVars>>

\* WinMainAllowSleep with the call of lines 487-488 left out.
WinMainAllowSleepSkipped ==
    /\ pc = "restore"
    /\ pc' = "cleanup"
    /\ UNCHANGED <<retval, hinstKernel32, pGetTickCount64,
                   pSetThreadExecutionState, hAccTable, hwndClock, execState,
                   hwnd, window, textVars, timers, visible, invalid,
                   quitPosted, rect, paintVars, hpc, ltMs, envVars, msg,
                   syncVars>>

\* Allow screen blanking and sleep again (lines 486-488).
WinMainAllowSleep ==
    /\ pc = "restore"
    /\ execState' = IF pSetThreadExecutionState THEN FALSE ELSE execState
    /\ pc' = "cleanup"
    /\ UNCHANGED <<retval, hinstKernel32, pGetTickCount64,
                   pSetThreadExecutionState, hAccTable, hwndClock, hwnd,
                   window, textVars, timers, visible, invalid, quitPosted,
                   rect, paintVars, hpc, ltMs, envVars, msg,
                   syncVars>>

\* cleanup: DestroyAcceleratorTable, FreeLibrary, return (lines 490-495).
WinMainCleanup ==
    /\ pc = "cleanup"
    /\ pc' = "done"
    /\ UNCHANGED <<retval, hinstKernel32, pGetTickCount64,
                   pSetThreadExecutionState, hAccTable, hwndClock, execState,
                   hwnd, window, textVars, timers, visible, invalid,
                   quitPosted, rect, paintVars, hpc, ltMs, envVars, msg,
                   syncVars>>

\* ------------------------------------------------------------------------
\* StartClock (lines 336-350), entered on WM_SHOWWINDOW with wParam TRUE
\* ------------------------------------------------------------------------
\* One turn of the synchronisation loop: GetLocalTime, Sleep(2), and the
\* test of lt.wMilliseconds.
StartClockSyncTurn(ms) ==
    /\ hpc = "sync"
    /\ ltMs' = ms
    /\ hpc' = IF ms % 1000 > 10 THEN "sync" ELSE "update"
    /\ UNCHANGED <<winMainVars, hwnd, window, textVars, timers, visible,
                   invalid, quitPosted, rect, paintVars, envVars, msg>>

\* A turn of the loop that samples any of MsSamples.
StartClockSync ==
    /\ \E ms \in MsSamples : StartClockSyncTurn(ms)
    /\ UNCHANGED syncVars

\* A turn of the loop under a system clock that advances by turnMs from one
\* GetLocalTime to the next.
StartClockSyncTimed ==
    /\ StartClockSyncTurn(clockMs)
    /\ clockMs' = (clockMs + turnMs) % MSEC_PER_SEC
    /\ UNCHANGED turnMs

\* UpdateClock(window) (line 348).
StartClockUpdate ==
    /\ hpc = "update"
    /\ UpdateClock
    /\ hpc' = "settimer"
    /\ UNCHANGED <<winMainVars, hwnd, window, timers, visible, quitPosted,
                   rect, paintVars, ltMs, envVars, msg,
                   syncVars>>

\* A SetTimer that takes a new identifier on every call, as the host does
\* when it is given no window.
SetTimerNew(ts, hWnd, nIDEvent) ==
    ts \cup { nIDEvent + Cardinality(ts) }

\* The host's SetTimer: on a window, a timer of the same identifier is
\* replaced; with no window the identifier is ignored and a new one taken.
SetTimer(ts, hWnd, nIDEvent) ==
    IF hWnd # "NULL" THEN ts \cup {nIDEvent}
    ELSE ts \cup { nIDEvent + Cardinality(ts) }

\* window->hwnd, set by CreateClockWindow (line 181).
WindowHwnd == IF window = "alloc" THEN "hwnd" ELSE "NULL"

\* SetTimer(window->hwnd, IDT_REFRESH, 1000, NULL) (line 349).
StartClockSetTimer ==
    /\ hpc = "settimer"
    /\ timers' = SetTimer(timers, WindowHwnd, IDT_REFRESH)
    /\ hpc' = "idle"
    /\ ltMs' = 0
    /\ UNCHANGED <<winMainVars, hwnd, window, textVars, visible, invalid,
                   quitPosted, rect, paintVars, envVars, msg,
                   syncVars>>

\* ------------------------------------------------------------------------
\* StopClock (lines 356-361): KillTimer(window->hwnd, IDT_REFRESH)
\* ------------------------------------------------------------------------
\* A StopClock that kills no timer.
StopClockKillsNothing(ts) == ts

StopClock(ts) == ts \ {IDT_REFRESH}

\* ------------------------------------------------------------------------
\* ClockWindowProc (lines 115-165): one message taken from the queue by
\* the loop of WinMain and dispatched
\* ------------------------------------------------------------------------
Dispatching == pc = "loop" /\ hpc = "idle" /\ hwnd = "live"

\* WM_TIMER with wParam IDT_REFRESH (lines 143-149).
OnTimer ==
    /\ Dispatching
    /\ IDT_REFRESH \in timers
    /\ UpdateClock
    /\ UNCHANGED <<winMainVars, hwnd, window, timers, visible, quitPosted,
                   rect, paintVars, hpc, ltMs, envVars, msg,
                   syncVars>>

\* WM_SHOWWINDOW (lines 151-156).
OnShowWindow ==
    /\ Dispatching
    /\ \E wParam \in BOOLEAN :
        /\ visible' = wParam
        /\ hpc' = IF wParam THEN "sync" ELSE "idle"
        /\ timers' = IF wParam THEN timers ELSE StopClock(timers)
    /\ UNCHANGED <<winMainVars, hwnd, window, textVars, invalid, quitPosted,
                   rect, paintVars, ltMs, envVars, msg,
                   syncVars>>

\* WM_SIZE goes to DefWindowProc (line 164); the class styles CS_HREDRAW
\* and CS_VREDRAW (line 439) make the host invalidate the whole window.
OnSize ==
    /\ Dispatching
    /\ \E r \in Sizes \ {rect} : rect' = r
    /\ invalid' = TRUE
    /\ UNCHANGED <<winMainVars, hwnd, window, textVars, timers, visible,
                   quitPosted, paintVars, hpc, ltMs, envVars, msg,
                   syncVars>>

\* GetMessage returns a key-down message (line 478).
OnKeyDown ==
    /\ Dispatching
    /\ \E k \in Keys : msg' = k
    /\ hpc' = "accel"
    /\ UNCHANGED <<winMainVars, hwnd, window, textVars, timers, visible,
                   invalid, quitPosted, rect, paintVars, ltMs, envVars,
                   syncVars>>

\* Escape or Ctrl+W: TranslateAccelerator (lines 69-74, 480) sends
\* WM_COMMAND with IDCANCEL, and the handler calls DestroyWindow (lines
\* 126-130), which sends WM_DESTROY.
OnCommandCancel ==
    /\ hpc = "accel"
    /\ TranslateAccelerator(msg) = IDCANCEL
    /\ msg' = NoKey
    /\ hpc' = "destroy"
    /\ UNCHANGED <<winMainVars, hwnd, window, textVars, timers, visible,
                   invalid, quitPosted, rect, paintVars, ltMs, envVars,
                   syncVars>>

\* Any other key: TranslateMessage and DispatchMessage (lines 481-482), and
\* the message goes to DefWindowProc (line 164).
OnKeyDefault ==
    /\ hpc = "accel"
    /\ TranslateAccelerator(msg) # IDCANCEL
    /\ msg' = NoKey
    /\ hpc' = "idle"
    /\ UNCHANGED <<winMainVars, hwnd, window, textVars, timers, visible,
                   invalid, quitPosted, rect, paintVars, ltMs, envVars,
                   syncVars>>

\* WM_CLOSE goes to DefWindowProc (line 164), which calls DestroyWindow.
OnClose ==
    /\ Dispatching
    /\ hpc' = "destroy"
    /\ UNCHANGED <<winMainVars, hwnd, window, textVars, timers, visible,
                   invalid, quitPosted, rect, paintVars, ltMs, envVars, msg,
                   syncVars>>

\* WM_DESTROY (lines 158-161), first half: DestroyClockWindow up to and
\* including StopClock (lines 193-196).
DestroyClockWindowStop ==
    /\ hpc = "destroy"
    /\ timers' = IF window = "NULL" THEN timers ELSE StopClock(timers)
    /\ hpc' = "free"
    /\ UNCHANGED <<winMainVars, hwnd, window, textVars, visible, invalid,
                   quitPosted, rect, paintVars, ltMs, envVars, msg,
                   syncVars>>

\* WM_DESTROY, second half: free(window) (line 197) and PostQuitMessage
\* (line 160); the host's window is gone when the handler returns.
DestroyClockWindowFree ==
    /\ hpc = "free"
    /\ window' = IF window = "NULL" THEN window ELSE "freed"
    /\ quitPosted' = TRUE
    /\ hwnd' = "destroyed"
    /\ hpc' = "idle"
    /\ UNCHANGED <<winMainVars, textVars, timers, visible, invalid, rect,
                   paintVars, ltMs, envVars, msg,
                   syncVars>>

\* ------------------------------------------------------------------------
\* PaintClockWindow (lines 209-330)
\* ------------------------------------------------------------------------
\* Font sizes and positions (lines 256-263, 292, 317) for a client area.
cHeightClock(r) == r.bottom \div 8

cHeightUptime(r) == r.bottom \div 12

\* A display height that leaves out the blank line.
displayHeightNoBlankLine(r) == cHeightClock(r) + 2 * cHeightUptime(r)

displayHeight(r) == cHeightClock(r) + 3 * cHeightUptime(r)

\* The layout computed from the client area the window was created with.
LayoutAtCreation(r) ==
    LET y == (InitialRect.bottom - displayHeight(InitialRect)) \div 2
    IN  [cHeightClock |-> cHeightClock(InitialRect),
         cHeightUptime |-> cHeightUptime(InitialRect),
         x |-> r.right \div 2,
         yClock |-> y,
         yLabel |-> y + cHeightClock(InitialRect) + cHeightUptime(InitialRect),
         yUptime |-> y + cHeightClock(InitialRect)
                       + 2 * cHeightUptime(InitialRect)]

Layout(r) ==
    LET y == (r.bottom - displayHeight(r)) \div 2
    IN  [cHeightClock |-> cHeightClock(r), cHeightUptime |-> cHeightUptime(r),
         x |-> r.right \div 2,
         yClock |-> y,
         yLabel |-> y + cHeightClock(r) + cHeightUptime(r),
         yUptime |-> y + cHeightClock(r) + cHeightUptime(r) + cHeightUptime(r)]

UPTIME_LABEL == "System Uptime"

\* A GDI call: its name, the device context it works on ("hdc" is the
\* window's, "memDC" the off-screen one) and the object it makes, selects,
\* draws or deletes ("NULL" when a creation fails).
GDI(call, dc, obj) == [call |-> call, dc |-> dc, obj |-> obj]

\* WM_ERASEBKGND answered by DefWindowProc, which fills the window with
\* the class brush.
EraseBkgndDefault == << GDI("FillRect", "hdc", "hbrBackground") >>

\* WM_ERASEBKGND (lines 134-137), which BeginPaint sends: the handler
\* returns 1 and draws nothing.
EraseBkgnd == << >>

\* A cleanup block that has lost line 328.
PaintCleanupKeepsBitmap(memDC, memBM) ==
    << GDI("SelectObject", IF memDC THEN "memDC" ELSE "NULL", "oldBM"),
       GDI("DeleteDC", "none", IF memDC THEN "memDC" ELSE "NULL"),
       GDI("EndPaint", "hdc", "none") >>

\* The cleanup block (lines 325-329); memDC and memBM tell whether the
\* handle is not NULL.
PaintCleanup(memDC, memBM) ==
    << GDI("SelectObject", IF memDC THEN "memDC" ELSE "NULL", "oldBM"),
       GDI("DeleteDC", "none", IF memDC THEN "memDC" ELSE "NULL"),
       GDI("DeleteObject", "none", IF memBM THEN "memBM" ELSE "NULL"),
       GDI("EndPaint", "hdc", "none") >>

\* The GDI calls of one paint, in order, when the creation named by fail
\* returns NULL.  The two fonts are both held in hFont; they are told apart
\* by their heights.
PaintOps(fail) ==
    LET made(what, obj) == IF fail = what THEN "NULL" ELSE obj
        toDC   == << GDI("BeginPaint", "hdc", "none") >> \o EraseBkgnd
                  \o << GDI("CreateCompatibleDC", "hdc", made("memDC", "memDC")) >>
        toBM   == toDC
                  \o << GDI("CreateCompatibleBitmap", "hdc", made("memBM", "memBM")) >>
        toF1   == toBM
                  \o << GDI("SelectObject", "memDC", "memBM"),
                        GDI("FillRect", "memDC", "COLOR_BTNFACE"),
                        GDI("CreateFont", "none", made("font1", "hFont(cHeightClock)")) >>
        toF2   == toF1
                  \o << GDI("SelectObject", "memDC", "hFont(cHeightClock)"),
                        GDI("TextOut", "memDC", "szClock"),
                        GDI("SelectObject", "memDC", "hOldObj"),
                        GDI("DeleteObject", "none", "hFont(cHeightClock)"),
                        GDI("CreateFont", "none", made("font2", "hFont(cHeightUptime)")) >>
        toBlit == toF2
                  \o << GDI("SelectObject", "memDC", "hFont(cHeightUptime)"),
                        GDI("TextOut", "memDC", "UPTIME_LABEL"),
                        GDI("TextOut", "memDC", "szUptime"),
                        GDI("SelectObject", "memDC", "hOldObj"),
                        GDI("DeleteObject", "none", "hFont(cHeightUptime)"),
                        GDI("BitBlt", "hdc", "memDC") >>
    IN  CASE fail = "memDC" -> toDC \o PaintCleanup(FALSE, FALSE)
          [] fail = "memBM" -> toBM \o PaintCleanup(TRUE, FALSE)
          [] fail = "font1" -> toF1 \o PaintCleanup(TRUE, TRUE)
          [] fail = "font2" -> toF2 \o PaintCleanup(TRUE, TRUE)
          [] OTHER          -> toBlit \o PaintCleanup(TRUE, TRUE)

\* What the blit of a paint with no failure leaves on the screen.
Painted(r, clock, up) ==
    LET l == Layout(r)
    IN  [painted |-> TRUE,
         clock |-> CString(clock),
         label |-> Take(UPTIME_LABEL, UPTIME_LABEL_LEN),
         uptime |-> CString(up),
         cHeightClock |-> l.cHeightClock, cHeightUptime |-> l.cHeightUptime,
         x |-> l.x, yClock |-> l.yClock, yLabel |-> l.yLabel,
         yUptime |-> l.yUptime, right |-> r.right, bottom |-> r.bottom]

\* WM_PAINT (lines 139-141): the host sends it to a visible window that
\* has an update region; EndPaint validates the region on every path.
OnPaint ==
    /\ Dispatching
    /\ invalid
    /\ visible
    /\ \E fail \in PaintFails :
        /\ gdi' = PaintOps(fail)
        /\ screen' = IF fail = "none" THEN Painted(rect, szClock, szUptime)
                     ELSE screen
    /\ invalid' = FALSE
    /\ hpc' = "painted"
    /\ UNCHANGED <<winMainVars, hwnd, window, textVars, timers, visible,
                   quitPosted, rect, ltMs, envVars, msg,
                   syncVars>>

\* PaintClockWindow returns (line 330) and the handler with it (line 141).
OnPaintReturn ==
    /\ hpc = "painted"
    /\ gdi' = <<>>
    /\ hpc' = "idle"
    /\ UNCHANGED <<winMainVars, hwnd, window, textVars, timers, visible,
                   invalid, quitPosted, rect, screen, ltMs, envVars, msg,
                   syncVars>>

\* ------------------------------------------------------------------------
\* The environment: time passes
\* ------------------------------------------------------------------------
Elapse ==
    /\ pc # "done"
    /\ elapsed < MaxElapse
    /\ \E d \in ElapseDeltas : uptime' = U64Add(uptime, d)
    /\ \E t \in NowSamples \ {now} : now' = t
    /\ elapsed' = elapsed + 1
    /\ UNCHANGED <<winMainVars, hwnd, window, textVars, timers, visible,
                   invalid, quitPosted, rect, paintVars, hpc, ltMs, msg,
                   syncVars>>

\* ------------------------------------------------------------------------
\* The program
\* ------------------------------------------------------------------------
Next ==
    \/ WinMainLoadLibrary
    \/ WinMainCreateAccel
    \/ WinMainCreateWindow
    \/ WinMainKeepAwake
    \/ WinMainShowWindow
    \/ WinMainGetMessageQuit
    \/ WinMainAllowSleep
    \/ WinMainCleanup
    \/ StartClockSync
    \/ StartClockUpdate
    \/ StartClockSetTimer
    \/ OnTimer
    \/ OnShowWindow
    \/ OnSize
    \/ OnKeyDown
    \/ OnCommandCancel
    \/ OnKeyDefault
    \/ OnClose
    \/ DestroyClockWindowStop
    \/ DestroyClockWindowFree
    \/ OnPaint
    \/ OnPaintReturn
    \/ Elapse

Spec == Init /\ [][Next]_vars

\* The synchronisation loop of StartClock under a system clock that moves
\* on by the same amount in every turn; the thread keeps running, so a
\* turn of the loop that can be taken is taken.
InitSync ==
    \E ms \in StartMs, turn \in TurnMs :
        CreatedWith(Ms(0, 1, 1, 1, 0), Tm(2023, 3, 30, 0, 34, 56), TRUE,
                    InitialRect, ms, turn)

NextSync ==
    \/ WinMainShowWindow
    \/ StartClockSyncTimed
    \/ StartClockUpdate
    \/ StartClockSetTimer

SpecSync == InitSync /\ [][NextSync]_vars /\ WF_vars(StartClockSyncTimed)

\* The layout of PaintClockWindow over the client areas LayoutRects: the
\* window is shown, StartClock formats the strings, and the window paints.
InitLayout ==
    \E r \in LayoutRects :
        CreatedWith(Ms(0, 1, 1, 1, 0), Tm(2023, 3, 30, 0, 34, 56), TRUE,
                    r, 0, SleepMs)

NextLayout ==
    \/ WinMainShowWindow
    \/ StartClockSync
    \/ StartClockUpdate
    \/ StartClockSetTimer
    \/ OnPaint
    \/ OnPaintReturn

SpecLayout == InitLayout /\ [][NextLayout]_vars

\* The program under its scheduling: WinMain is one thread, so a step of
\* WinMain or of a handler that can run does run.  Nothing is assumed of
\* the messages the host and the user send.
SpecLive ==
    /\ Spec
    /\ WF_vars(OnCommandCancel)
    /\ WF_vars(OnKeyDefault)
    /\ WF_vars(DestroyClockWindowStop)
    /\ WF_vars(DestroyClockWindowFree)
    /\ WF_vars(WinMainGetMessageQuit)
    /\ WF_vars(WinMainAllowSleep)
    /\ WF_vars(WinMainCleanup)

\* The formatting of UpdateClock over the inputs FmtInputs: the window is
\* shown, StartClock formats the two strings, and the timer ticks.
NextFmt ==
    \/ WinMainShowWindow
    \/ StartClockSync
    \/ StartClockUpdate
    \/ StartClockSetTimer
    \/ OnTimer

SpecFmt == InitFmt /\ [][NextFmt]_vars

\* ------------------------------------------------------------------------
\* Properties
\* ------------------------------------------------------------------------
\* days*86400000 + hours*3600000 + minutes*60000 + seconds*1000 +
\* (ticks mod 1000) for the locals u, as an unsigned long long.
Recomposed(u) ==
    U64Add(U64MulSmall(u.days, MSEC_PER_DAY),
           U64FromInt(u.hours * MSEC_PER_HR + u.minutes * MSEC_PER_MIN
                      + u.seconds * MSEC_PER_SEC
                      + U64DivMod(u.ticks, MSEC_PER_SEC).rem))

\* The last UpdateClock call formatted both strings.
Updated == upd.called /\ upd.clockRet # 0

\* C1: the days, hours, minutes and seconds UpdateClock computes from the
\* tick count U it reads recompose U exactly, days*86400000 + hours*3600000
\* + minutes*60000 + seconds*1000 + (U mod 1000) = U, with hours < 24,
\* minutes < 60 and seconds < 60; U = 90000000 gives 1 d, 1 hr, 0 min,
\* 0 sec and U = 3661000 gives 0 d, 1 hr, 1 min, 1 sec.
C1_DecompositionExact ==
    Updated =>
        /\ upd.ticks = GetTickCount64OrOtherwise
        /\ Recomposed(upd) = upd.ticks
        /\ upd.hours \in 0..23
        /\ upd.minutes \in 0..59
        /\ upd.seconds \in 0..59
        /\ upd.ticks = U64FromInt(90000000)
              => CString(szUptime) = "1 d, 1 hr, 0 min, 0 sec"
        /\ upd.ticks = U64FromInt(3661000)
              => CString(szUptime) = "0 d, 1 hr, 1 min, 1 sec"

C1_Witness ==
    /\ Updated
    /\ upd.ticks = U64FromInt(90000000)
    /\ upd.days = U64FromInt(1)
    /\ upd.hours = 1
    /\ CString(szUptime) = "1 d, 1 hr, 0 min, 0 sec"

\* C2: a show event with wParam TRUE recomputes both strings from the
\* current time and uptime and requests a repaint, and only then is the
\* timer set; while the last show event had wParam FALSE no timer is set.
C2_ShowRefreshesThenStartsTimer ==
    /\ [](~visible => IDT_REFRESH \notin timers)
    /\ [][/\ (visible' /\ ~visible) => hpc' = "sync"
          /\ (hpc = "sync" /\ hpc' # "sync") => hpc' = "update"
          /\ (hpc = "update" /\ hpc' # "update") =>
                /\ hpc' = "settimer"
                /\ upd'.called /\ upd'.clockRet # 0
                /\ CString(szClock') = ClockText(now)
                /\ upd'.ticks = GetTickCount64OrOtherwise
                /\ CString(szUptime') =
                       Take(UptimeText(upd'.days, upd'.hours, upd'.minutes,
                                       upd'.seconds), UPTIME_LEN)
                /\ invalid'
                /\ timers' = timers
          /\ (hpc = "settimer" /\ hpc' # "settimer") =>
                /\ invalid
                /\ IDT_REFRESH \in timers'
          /\ (IDT_REFRESH \in timers' /\ IDT_REFRESH \notin timers) =>
                hpc = "settimer"
       ]_vars

\* The window is shown again after a hide (it was painted, and has no
\* timer), the strings are fresh and the timer is about to be set.
C2_Witness ==
    /\ hpc = "settimer"
    /\ screen.painted
    /\ timers = {}
    /\ invalid
    /\ CString(szClock) # screen.clock

\* C3: the refresh timer is set only while the last show event had wParam
\* TRUE and the window is not destroyed; destroying the window kills the
\* timer before the CLOCKWINDOW is freed.
C3_TimerOnlyWhileVisible ==
    /\ IDT_REFRESH \in timers => (visible /\ hwnd = "live" /\ window = "alloc")
    /\ hpc = "free" => timers = {}
    /\ window = "freed" => timers = {}

\* The window is being destroyed while shown: the timer is killed and the
\* CLOCKWINDOW is not freed yet.
C3_Witness ==
    /\ hpc = "free"
    /\ visible
    /\ window = "alloc"
    /\ timers = {}

\* C4: WinMain returns 1, without entering the message loop, when the
\* accelerator table or the window cannot be created (the latter also when
\* the allocation in WM_CREATE fails), and 0 once the message loop ended.
C4_ExitCode ==
    LET failed == hAccTable = "NULL" \/ hwndClock = "NULL"
    IN  /\ pc = "done" => retval = IF failed THEN 1 ELSE 0
        /\ failed => (pc \in {"cleanup", "done"} /\ retval = 1)
        /\ pc \in {"loop", "restore"} =>
              (hAccTable = "handle" /\ hwndClock = "hwnd" /\ retval = 0)
        /\ (pc = "done" /\ ~failed) => (quitPosted /\ hwnd = "destroyed")
        /\ (hwnd = "destroyed" /\ window = "NULL") => hwndClock = "NULL"

\* The allocation in WM_CREATE failed and WinMain returned 1.
C4_Witness ==
    /\ pc = "done"
    /\ retval = 1
    /\ hwnd = "destroyed"
    /\ window = "NULL"
    /\ hAccTable = "handle"

\* The uptime text of the last UpdateClock call did not fit its buffer, or
\* the clock text did not.
FormatFailed(u) == u.clockRet = 0 \/ u.uptimeRet > UPTIME_LEN

\* C5: when formatting the clock string or the uptime string fails in a
\* timer tick, the strings stored before the tick are the ones that stay
\* stored, and so the ones a later paint renders.
C5_StaleTextKept ==
    [][(OnTimer /\ FormatFailed(upd')) =>
           (szClock' = szClock /\ szUptime' = szUptime)]_vars

\* C6: once the CLOCKWINDOW exists the clock string and the uptime string
\* stay within their arrays of CLOCK_LEN + 1 and UPTIME_LEN + 1 characters
\* and hold a terminator, so that their lengths are at most 22 and 28, also
\* when the uptime text has more than 28 characters.
C6_StringsTerminated ==
    window = "alloc" =>
        /\ Len(szClock) = CLOCK_LEN + 1
        /\ Len(szUptime) = UPTIME_LEN + 1
        /\ \E i \in 1..(CLOCK_LEN + 1) : CharAt(szClock, i) = NUL
        /\ \E i \in 1..(UPTIME_LEN + 1) : CharAt(szUptime, i) = NUL
        /\ Strlen(szClock) <= CLOCK_LEN
        /\ Strlen(szUptime) <= UPTIME_LEN

\* An uptime of 1000 days or more whose text has 29 characters is stored,
\* cut to 28.
C6_Witness ==
    /\ window = "alloc"
    /\ Updated
    /\ ~U64Less(upd.days, U64FromInt(1000))
    /\ upd.uptimeRet = UPTIME_LEN + 1
    /\ Strlen(szUptime) = UPTIME_LEN

\* C7: for a tick count below 1000 days the uptime text has at most 28
\* characters and is stored whole.
C7_UptimeFitsBelow1000Days ==
    (Updated /\ U64Less(upd.ticks, Ms(1000, 0, 0, 0, 0))) =>
        /\ upd.uptimeRet <= UPTIME_LEN
        /\ Strlen(szUptime) = upd.uptimeRet
        /\ CharAt(szUptime, upd.uptimeRet + 1) = NUL
        /\ SubSeq(szUptime, upd.uptimeRet - 3, upd.uptimeRet) = " sec"

\* 999 d, 23 hr, 59 min, 59 sec: the longest such text, 28 characters.
C7_Witness ==
    /\ Updated
    /\ upd.ticks = Ms(999, 23, 59, 59, 999)
    /\ upd.uptimeRet = UPTIME_LEN
    /\ CString(szUptime) = "999 d, 23 hr, 59 min, 59 sec"

\* C8: the clock string of a valid local time, MM/DD/YYYY hh:mm:ss AM/PM
\* with a 12-hour clock and zero-padded fields, has exactly 22 characters;
\* 2023-03-30 00:34:56 gives "03/30/2023 12:34:56 AM".
C8_ClockTextLength ==
    Updated =>
        /\ upd.clockRet = CLOCK_LEN
        /\ Strlen(szClock) = CLOCK_LEN
        /\ CharAt(szClock, 3) = "/" /\ CharAt(szClock, 6) = "/"
        /\ CharAt(szClock, 11) = " " /\ CharAt(szClock, 20) = " "
        /\ CharAt(szClock, 14) = ":" /\ CharAt(szClock, 17) = ":"
        /\ SubSeq(szClock, 12, 13) \in {"01", "02", "03", "04", "05", "06",
                                        "07", "08", "09", "10", "11", "12"}
        /\ SubSeq(szClock, 21, 22) = IF now.tm_hour < 12 THEN "AM" ELSE "PM"
        /\ now = Tm(2023, 3, 30, 0, 34, 56)
              => CString(szClock) = "03/30/2023 12:34:56 AM"

C8_Witness ==
    /\ Updated
    /\ now = Tm(2023, 3, 30, 0, 34, 56)
    /\ CString(szClock) = "03/30/2023 12:34:56 AM"

\* The paint being run has blitted.
Blitted == hpc = "painted" /\ \E i \in 1..Len(gdi) : gdi[i].call = "BitBlt"

\* C9: a change of the client area invalidates the window, and a paint
\* that draws uses the client height H of that moment: the clock line at
\* size H div 8, the label and the uptime at size H div 12.
C9_FontSizesFollowHeight ==
    /\ [](Blitted =>
            /\ screen.painted
            /\ screen.bottom = rect.bottom
            /\ screen.cHeightClock = rect.bottom \div 8
            /\ screen.cHeightUptime = rect.bottom \div 12)
    /\ [][/\ rect' # rect => invalid'
          /\ screen' # screen => (Blitted' /\ rect' = rect)]_vars

\* A paint after a resize to height 95 drew at sizes 11 and 7.
C9_Witness ==
    /\ Blitted
    /\ rect.bottom = 95
    /\ screen.cHeightClock = 11
    /\ screen.cHeightUptime = 7

\* C10: when SetThreadExecutionState is available, the display is kept
\* awake from before the window is first shown, in every state in which
\* the window is shown, and no longer once WinMain has returned; on a
\* start-up failure it is never kept awake.
C10_KeepAwakeWhileShown ==
    /\ (pSetThreadExecutionState /\ pc = "show") => execState
    /\ (pSetThreadExecutionState /\ visible /\ hwnd = "live") => execState
    /\ pc = "done" => ~execState
    /\ retval = 1 => ~execState
    /\ (hAccTable = "NULL" \/ hwndClock = "NULL") => ~execState

\* The window was shown, then closed, and WinMain returned.
C10_Witness ==
    /\ pc = "done"
    /\ retval = 0
    /\ pSetThreadExecutionState
    /\ visible
    /\ screen.painted
    /\ ~execState

\* The step the message loop takes on a key-down message for Escape or
\* Ctrl+W.
C11_CancelKeyStep ==
    (hpc = "accel" /\ msg \in {Key("VK_ESCAPE", FALSE), Key("W", TRUE)}
        /\ hpc' # "accel")
    => hpc' = "destroy"

\* C11: a key-down message for Escape or for Ctrl+W that the message loop
\* has taken from the queue becomes the cancel command, which starts the
\* destruction of the window; from there the timer is stopped, the
\* CLOCKWINDOW is freed, WM_QUIT is posted, the loop ends and WinMain
\* returns 0.
C11_CancelKeyCloses ==
    /\ [][C11_CancelKeyStep]_vars
    /\ (hpc = "accel" /\ msg \in {Key("VK_ESCAPE", FALSE), Key("W", TRUE)})
           ~> (/\ pc = "done"
               /\ retval = 0
               /\ hwnd = "destroyed"
               /\ window = "freed"
               /\ timers = {}
               /\ quitPosted)

C11_Witness ==
    /\ hpc = "accel"
    /\ msg = Key("W", TRUE)
    /\ IDT_REFRESH \in timers
    /\ window = "alloc"
    /\ pc = "loop"

\* The positions in the log of the paint being run that hold one of calls.
CallsOf(calls) == { i \in 1..Len(gdi) : gdi[i].call \in calls }

\* TRUE when no creation of the paint being run returned NULL.
AllCreated ==
    \A i \in CallsOf({"CreateCompatibleDC", "CreateCompatibleBitmap", "CreateFont"}) :
        gdi[i].obj # "NULL"

\* C12: in a paint the background fill and the three text draws go to the
\* off-screen context and come before the blit; the window's own context is
\* drawn on by one blit from the off-screen context when every creation
\* succeeded, and by nothing when one failed.
C12_OffScreenThenOneBlit ==
    hpc = "painted" =>
        LET draws == CallsOf({"FillRect", "TextOut"})
            blits == CallsOf({"BitBlt"})
        IN  /\ \A i \in draws : gdi[i].dc = "memDC"
            /\ \A i \in draws : \A j \in blits : i < j
            /\ \A j \in blits : gdi[j].dc = "hdc" /\ gdi[j].obj = "memDC"
            /\ { i \in CallsOf({"FillRect", "TextOut", "BitBlt"}) :
                   gdi[i].dc = "hdc" } = blits
            /\ Cardinality(blits) = IF AllCreated THEN 1 ELSE 0
            /\ AllCreated =>
                /\ Cardinality(CallsOf({"FillRect"})) = 1
                /\ Cardinality(CallsOf({"TextOut"})) = 3
                /\ { gdi[i].obj : i \in CallsOf({"TextOut"}) }
                      = { "szClock", "UPTIME_LABEL", "szUptime" }

C12_Witness ==
    /\ hpc = "painted"
    /\ Cardinality(CallsOf({"BitBlt"})) = 1
    /\ Cardinality(CallsOf({"TextOut"})) = 3
    /\ screen = Painted(rect, szClock, szUptime)
    /\ upd.called

\* The steps of WinMain around the optional entry points, and the read of
\* the tick count.
C13_StartupStep ==
    /\ (pc = "start" /\ pc' # pc) => pc' = "accel"
    /\ (pc = "keepawake" /\ pc' # pc) => pc' = "show"
    /\ (pc = "show" /\ pc' # pc) => pc' = "loop"
    /\ (pc = "restore" /\ pc' # pc) => pc' = "cleanup"

C13_TickSourceStep ==
    (upd' # upd /\ upd'.clockRet # 0)
    => upd'.ticks = IF pGetTickCount64 THEN uptime
                    ELSE [i \in 1..U64Digits |->
                            IF i <= U64Digits - DWORDDigits THEN 0 ELSE uptime[i]]

\* C13: a missing entry point, or kernel32.dll failing to load, changes
\* nothing in the course of WinMain: the steps around the lookups and the
\* keep-awake calls go on as ever, retval becomes 1 only when the
\* accelerator table or the window could not be created, the keep-awake
\* state is never touched without its entry point, and the tick count is
\* read from the 32-bit source when the 64-bit one is missing.
C13_OptionalEntryPoints ==
    /\ []((pc # "start" /\ ~hinstKernel32)
             => (~pGetTickCount64 /\ ~pSetThreadExecutionState))
    /\ [](~pSetThreadExecutionState => ~execState)
    /\ [](retval = 1 => (hAccTable = "NULL" \/ hwndClock = "NULL"))
    /\ [][C13_StartupStep]_vars
    /\ [][C13_TickSourceStep]_vars

C13_Witness ==
    /\ pc = "loop"
    /\ ~hinstKernel32
    /\ ~execState
    /\ visible
    /\ upd.called
    /\ upd.ticks # uptime
    /\ timers = {IDT_REFRESH}

\* C14: the synchronisation loop of StartClock ends, whatever the time at
\* which it starts and whatever time one turn takes, and when it ends the
\* last wMilliseconds read is at most 10.
C14_SyncLoopEnds ==
    (hpc = "sync") ~> (hpc = "update" /\ ltMs % MSEC_PER_SEC <= 10)

\* C15: a paint that draws, in a client area of height H and width W, puts
\* the clock line at y = (H - (c + 3u)) div 2 with c = H div 8 and
\* u = H div 12, the label at y + c + u and the uptime at y + c + 2u; the
\* block from y to y + c + 3u lies within the window, the margin above it
\* and the margin below it differ by at most 1, and every line is centred
\* on W div 2.
C15_BlockCentred ==
    Blitted =>
        LET H == rect.bottom
            c == H \div 8
            u == H \div 12
            y == screen.yClock
            top == y
            bottom == H - (y + c + 3 * u)
        IN  /\ 2 * y <= H - (c + 3 * u)
            /\ 2 * y + 1 >= H - (c + 3 * u)
            /\ screen.yLabel = y + c + u
            /\ screen.yUptime = y + c + 2 * u
            /\ y >= 0
            /\ y + c + 3 * u <= H
            /\ bottom - top \in {-1, 0, 1}
            /\ screen.x = rect.right \div 2
            /\ 2 * screen.x <= rect.right
            /\ rect.right <= 2 * screen.x + 1

C15_Witness ==
    /\ Blitted
    /\ rect.bottom = 95
    /\ screen.yClock = 31
    /\ screen.yLabel = 49
    /\ screen.yUptime = 56
    /\ screen.x = 166

\* What a timer tick stores and what a paint shows.
C16_TickStep ==
    (OnTimer /\ ~FormatFailed(upd')) =>
        LET p == UptimeParts(GetTickCount64OrOtherwise)
        IN  /\ CString(szClock') = ClockText(now)
            /\ CString(szUptime')
                  = UptimeText(p.days, p.hours, p.minutes, p.seconds)
            /\ invalid'

C16_PaintStep ==
    /\ (invalid /\ ~invalid') => hpc' = "painted"
    /\ (hpc = "idle" /\ Blitted') =>
          /\ screen'.clock = CString(szClock)
          /\ screen'.uptime = CString(szUptime)
    /\ (hpc = "painted" \/ hpc' = "painted") => UNCHANGED textVars

C17_TimerStep ==
    /\ (hpc = "settimer" /\ hpc' = "idle") => timers' = {IDT_REFRESH}
    /\ (visible /\ ~visible') => timers' = {}
    /\ (hpc = "destroy" /\ hpc' = "free") => timers' = {}

\* C17: never more than one timer is set on the window, and it is
\* IDT_REFRESH: StartClock, however often it runs while the window is
\* shown, leaves exactly that one, and hiding the window or destroying it
\* leaves none.
C17_AtMostOneTimer ==
    /\ [](Cardinality(timers) <= 1 /\ timers \subseteq {IDT_REFRESH})
    /\ [][C17_TimerStep]_vars

C17_Witness ==
    /\ hpc = "settimer"
    /\ timers = {IDT_REFRESH}
    /\ visible
    /\ hwnd = "live"

\* The two steps that change the CLOCKWINDOW pointer.
C18_StateStep ==
    window' # window =>
        \/ (window = "NULL" /\ window' = "alloc" /\ pc = "create")
        \/ (window = "alloc" /\ window' = "freed" /\ hpc = "free")

\* C18: the handlers that use the CLOCKWINDOW (paint, timer, show and hide,
\* and the steps of StartClock) run only while it is allocated and not yet
\* freed; the WM_DESTROY of a window whose CLOCKWINDOW could not be
\* allocated finds none and frees nothing; the CLOCKWINDOW is allocated
\* once, by WM_CREATE, and freed once, by WM_DESTROY, after which no
\* handler runs.
C18_StateUsedOnlyWhileAllocated ==
    /\ [](hwnd = "live" => window = "alloc")
    /\ [](hpc \in {"sync", "update", "settimer", "painted", "accel"}
             => (hwnd = "live" /\ window = "alloc"))
    /\ [](hpc \in {"destroy", "free"} => window = "alloc")
    /\ [](hwnd = "destroyed" => (window \in {"NULL", "freed"} /\ quitPosted))
    /\ [](window = "freed" => (hwnd = "destroyed" /\ hpc = "idle"))
    /\ [][C18_StateStep]_vars

C18_Witness ==
    /\ hwnd = "destroyed"
    /\ window = "NULL"
    /\ hwndClock = "NULL"
    /\ quitPosted
    /\ pc = "cleanup"
    /\ timers = {}

\* The objects a paint has made by position n of its log and not deleted.
LiveAt(n) ==
    { gdi[i].obj : i \in { k \in CallsOf({"CreateCompatibleDC",
                                         "CreateCompatibleBitmap",
                                         "CreateFont"}) :
                            /\ k <= n
                            /\ gdi[k].obj # "NULL"
                            /\ ~\E j \in CallsOf({"DeleteDC", "DeleteObject"}) :
                                  k < j /\ j <= n /\ gdi[j].obj = gdi[k].obj } }

\* C19: in every paint, whichever creation fails or none, BeginPaint is
\* the first call and EndPaint the last and each is made once; every
\* context, bitmap and font the paint has created is deleted exactly once,
\* after its creation, nothing is deleted that was not created, and the
\* bitmap is out of the context before either is deleted; so nothing the
\* paint made is left when the handler returns, and between paints nothing
\* is held.
C19_PaintReleasesAll ==
    /\ hpc # "painted" => gdi = <<>>
    /\ hpc = "painted" =>
        LET creates == { k \in CallsOf({"CreateCompatibleDC",
                                        "CreateCompatibleBitmap", "CreateFont"}) :
                           gdi[k].obj # "NULL" }
            deletes == { j \in CallsOf({"DeleteDC", "DeleteObject"}) :
                           gdi[j].obj # "NULL" }
        IN  /\ CallsOf({"BeginPaint"}) = {1}
            /\ CallsOf({"EndPaint"}) = {Len(gdi)}
            /\ \A k \in creates :
                  Cardinality({ j \in deletes : gdi[j].obj = gdi[k].obj }) = 1
            /\ \A j \in deletes :
                  \E k \in creates : k < j /\ gdi[k].obj = gdi[j].obj
            /\ Cardinality(creates) = Cardinality(deletes)
            /\ \A j \in deletes :
                  gdi[j].obj \in {"memDC", "memBM"} =>
                      \E i \in CallsOf({"SelectObject"}) :
                          i < j /\ gdi[i].obj = "oldBM"
            /\ LiveAt(Len(gdi)) = {}

C19_Witness ==
    /\ hpc = "painted"
    /\ \E k \in CallsOf({"CreateFont"}) : gdi[k].obj = "NULL"
    /\ \E k \in CallsOf({"CreateFont"}) : gdi[k].obj = "hFont(cHeightClock)"
    /\ LiveAt(Len(gdi) - 4) = {"memDC", "memBM"}

\* An UpdateClock that reads the 32-bit tick count.
C20_FallbackStep ==
    (~pGetTickCount64 /\ upd' # upd /\ upd'.clockRet # 0) =>
        LET low == [i \in 1..16 |-> IF i <= 8 THEN 0 ELSE uptime[i]]
        IN  /\ upd'.ticks = low
            /\ Recomposed(upd') = low
            /\ U64Less(upd'.days, U64FromInt(50))
            /\ upd'.hours < 24 /\ upd'.minutes < 60 /\ upd'.seconds < 60
            /\ low # uptime => Recomposed(upd') # uptime
            /\ U64IsZero(low) =>
                  CString(szUptime') = "0 d, 0 hr, 0 min, 0 sec"

\* C20: when GetTickCount64 is missing, the tick count UpdateClock
\* decomposes is the uptime modulo 2^32 ms: the days are at most 49, the
\* parts recompose that value and not the uptime once the uptime has
\* passed 2^32 ms, and at an uptime that is a multiple of 2^32 ms the text
\* is "0 d, 0 hr, 0 min, 0 sec".
C20_FallbackWraps ==
    /\ []((Updated /\ ~pGetTickCount64)
             => (/\ U64Less(upd.days, U64FromInt(50))
                 /\ \A i \in 1..8 : upd.ticks[i] = 0
                 /\ Recomposed(upd) = upd.ticks))
    /\ [][C20_FallbackStep]_vars

C20_Witness ==
    /\ Updated
    /\ ~pGetTickCount64
    /\ uptime = [i \in 1..16 |-> IF i = 8 THEN 1 ELSE 0]
    /\ U64IsZero(upd.ticks)
    /\ CString(szUptime) = "0 d, 0 hr, 0 min, 0 sec"
    /\ IDT_REFRESH \in timers

====
